---- MODULE Spec2Model ----
(***************************************************************************)
(* A model of the pytest harness of alttester-python-starter-project:      *)
(* the class fixture setup_drivers (tests/conftest.py), the drivers it     *)
(* starts and stops, the Unity log listener running on the AltTester       *)
(* client's delivery thread, and the static Reporter (common/reporter.py). *)
(*                                                                         *)
(* A driver handle is a number: 0 is Python's None, c > 0 is the driver    *)
(* started by the setup of test class number c.                            *)
(***************************************************************************)
EXTENDS Integers, Sequences, FiniteSets, TLC

\* ---------------------------------------------------------------- bounds
MaxClasses == 2      \* test classes run one after the other in a process
MaxTests   == 1      \* test functions per class
MaxNotifs  == 2      \* log notifications pushed by the game per class
MaxCalls   == 3      \* calls made by a direct client of the Reporter
MaxViewCalls == 1    \* calls of page-object methods

\* ------------------------------------------------------------- constants
Kinds     == {"alt", "selenium", "appium"}
Platforms == {"Android", "iOS", "WebGL"}
None      == 0

LogTags == {"Connected", "AppiumUnsupported", "SeleniumNotNeeded", "AllStarted",
            "ListenerSetup", "ErrorSavingLog", "NoUnityLogs",
            "FileNotFound", "FileAttached", "FailedAttach",
            "CannotScreenshot", "FailedScreenshot",
            "AllStoppedOk", "ErrorStopping", "Completed", "ClientMessage",
            "Waiting", "NotFoundWithin", "NotFound", "ClickedPlay",
            "PanelVisible", "PanelNotFound", "EnteredName", "MenuReady",
            "StartedNewGame"}

VARIABLES
    PLATFORM, RUNNING_WITH_APPIUM, RUNNING_WITH_SELENIUM,  \* TestConfiguration
    cls,              \* number of the test class whose fixture is running
    pc,               \* position of the main thread in setup_drivers
    appium_driver,    \* local of start_all_drivers
    selenium_driver,  \* local of start_all_drivers
    drivers,          \* local of setup_drivers: <<>> is None, else <<DriverContainer>>
    unity_logs,       \* local of setup_drivers: the dict, as its set of filenames
    Reporter_alt_driver,  \* class attribute Reporter.alt_driver
    raised,           \* exception propagating out of the try body, or "none"
    setupError,       \* cause of the first exception of this class's setup
    failure,          \* cause carried by pytest.fail, or "none"
    listener,         \* log_callback is registered with the client
    startAttempts,    \* per kind, number of constructor calls in this class
    launched,         \* kinds whose external session was created
    started,          \* kinds whose start function returned a handle
    stopAttempted,    \* kinds whose stop()/quit() was called
    stopped,          \* kinds whose stop()/quit() returned normally
    testsRun,         \* test bodies executed in this class
    ran,              \* per teardown step of the finally block, executions
    cbPc,             \* position of the delivery thread in log_callback
    delivered,        \* notifications handed to log_callback so far
    file,             \* lines of this class's Unity log file
    logs_copy,        \* local of add_unity_logs_to_allure
    flushFile,        \* loop variable of add_unity_logs_to_allure
    report,           \* what Reporter printed, captured, wrote and attached
    calls,            \* calls made by a direct client of the Reporter
    scene,            \* the game: per UI element absent, disabled or enabled
    view              \* outcome of the last call of a page-object method

cfgVars == <<PLATFORM, RUNNING_WITH_APPIUM, RUNNING_WITH_SELENIUM>>
drvVars == <<appium_driver, selenium_driver, drivers, startAttempts, launched,
             started, stopAttempted, stopped>>
cbVars  == <<cbPc, delivered, file>>
viewVars == <<scene, view>>
vars == <<PLATFORM, RUNNING_WITH_APPIUM, RUNNING_WITH_SELENIUM, cls, pc,
          appium_driver, selenium_driver, drivers, unity_logs,
          Reporter_alt_driver, raised, setupError, failure, listener,
          startAttempts, launched, started, stopAttempted, stopped, testsRun,
          ran, cbPc, delivered, file, logs_copy, flushFile, report, calls,
          scene, view>>

\* ------------------------------------------------------------- Reporter
NoFile == [test_name |-> 0, ext |-> ""]

EmptyReport ==
    [steps  |-> [t \in LogTags |-> 0],  \* print + allure.step, per message
     shots  |-> {},                     \* get_png_screenshot calls
     png    |-> {},                     \* PNG files written
     pngAtt |-> {},                     \* PNG attachments
     att    |-> {},                     \* file attachments
     exc    |-> "none"]                 \* what the last Reporter call raised

\* Reporter.log(message, with_screenshot=False)
Reporter_log(rep, tag) ==
    [rep EXCEPT !.steps[tag] = @ + 1]

NoName == [kind |-> "None", test |-> 0]
EmptyName == [kind |-> "Empty", test |-> 0]
DefaultName == [kind |-> "screenshot_ts", test |-> 0]
FailedName(t) == [kind |-> "_Failed", test |-> t]

ShotOutcomes == {"ok", "makedirs_raises", "driver_raises", "attach_raises"}

\* Reporter.take_screenshot without its check of Reporter.alt_driver: the
\* try body runs and get_png_screenshot is called on whatever is registered.
Reporter_take_screenshot_unguarded(rep, drv, custom_name, outcome) ==
    LET filename == IF custom_name \in {NoName, EmptyName}
                    THEN DefaultName ELSE custom_name
        shot == [driver |-> drv, name |-> filename,
                 seq |-> Cardinality(rep.shots) + 1]
    IN IF outcome = "makedirs_raises"
       THEN Reporter_log(rep, "FailedScreenshot")
       ELSE IF drv = None \/ outcome = "driver_raises"
       THEN Reporter_log([rep EXCEPT !.shots = @ \cup {shot}], "FailedScreenshot")
       ELSE IF outcome = "attach_raises"
       THEN Reporter_log([rep EXCEPT !.shots = @ \cup {shot},
                                     !.png = @ \cup {filename}],
                         "FailedScreenshot")
       ELSE [rep EXCEPT !.shots = @ \cup {shot},
                        !.png = @ \cup {filename},
                        !.pngAtt = @ \cup {filename}]

\* Reporter.take_screenshot(custom_name); drv is Reporter.alt_driver and
\* outcome says which of the external calls of the try body raises.
Reporter_take_screenshot(rep, drv, custom_name, outcome) ==
    IF drv = None
    THEN Reporter_log(rep, "CannotScreenshot")
    ELSE LET filename == IF custom_name \in {NoName, EmptyName}
                         THEN DefaultName ELSE custom_name
             shot == [driver |-> drv, name |-> filename,
                 seq |-> Cardinality(rep.shots) + 1]
         IN CASE outcome = "makedirs_raises" ->
                   Reporter_log(rep, "FailedScreenshot")
              [] outcome = "driver_raises" ->
                   Reporter_log([rep EXCEPT !.shots = @ \cup {shot}],
                                "FailedScreenshot")
              [] outcome = "attach_raises" ->
                   Reporter_log([rep EXCEPT !.shots = @ \cup {shot},
                                            !.png = @ \cup {filename}],
                                "FailedScreenshot")
              [] OTHER ->
                   [rep EXCEPT !.shots = @ \cup {shot},
                               !.png = @ \cup {filename},
                               !.pngAtt = @ \cup {filename}]

\* Reporter.log(message, with_screenshot)
Reporter_log_with(rep, drv, tag, with_screenshot, outcome) ==
    IF with_screenshot
    THEN Reporter_take_screenshot(Reporter_log(rep, tag), drv, NoName, outcome)
    ELSE Reporter_log(rep, tag)

\* ------------------------------------------------------------ the game
\* the names of MainMenuView's locators (all By.NAME)
Elements == {"PlayButton", "MainMenuPanel", "PlayerNameInput"}
ElementStates == {"absent", "disabled", "enabled"}

\* no exception
NoExc == [type |-> "none", value |-> "", timeout |-> 0]

\* no page-object method has been called
NoCall == [verb |-> "none", loc |-> "", timeout |-> 0, drv |-> 0,
           outcome |-> "", sc |-> [e \in Elements |-> "absent"],
           exc |-> NoExc, events |-> <<>>, ret |-> "None"]

\* ------------------------------------------------------- initial state
ClassStart ==
    /\ pc = "start_appium"
    /\ appium_driver = None
    /\ selenium_driver = None
    /\ drivers = <<>>
    /\ unity_logs = {}
    /\ raised = "none"
    /\ setupError = "none"
    /\ failure = "none"
    /\ listener = FALSE
    /\ startAttempts = [k \in Kinds |-> 0]
    /\ launched = {}
    /\ started = {}
    /\ stopAttempted = {}
    /\ stopped = {}
    /\ testsRun = 0
    /\ ran = [s \in {"flush", "cleanup", "completion"} |-> 0]
    /\ cbPc = "idle"
    /\ delivered = 0
    /\ file = <<>>
    /\ logs_copy = {}
    /\ flushFile = NoFile
    /\ report = EmptyReport

Init ==
    /\ PLATFORM \in Platforms
    /\ RUNNING_WITH_APPIUM \in BOOLEAN
    /\ RUNNING_WITH_SELENIUM \in BOOLEAN
    /\ cls = 1
    /\ Reporter_alt_driver = None
    /\ calls = 0
    /\ scene = [e \in Elements |-> "absent"]
    /\ view = NoCall
    /\ ClassStart

\* ----------------------------------------------------- driver container
\* DriverContainer.__init__
DriverContainer(alt, appium, selenium) ==
    [alt_driver |-> alt, appium_driver |-> appium, selenium_driver |-> selenium]

Handle(c, k) ==
    CASE k = "alt" -> c.alt_driver
      [] k = "selenium" -> c.selenium_driver
      [] OTHER -> c.appium_driver

\* An exception leaves the try body of setup_drivers.
Raise(cause) ==
    /\ raised' = cause
    /\ setupError' = cause
    /\ pc' = "except"

\* ------------------------------------------------------------ class setup
\* start_all_drivers, first part: the Appium driver
start_appium_driver ==
    /\ pc = "start_appium"
    /\ UNCHANGED <<cfgVars, cls, selenium_driver, drivers, unity_logs,
                   Reporter_alt_driver, failure, listener, stopAttempted,
                   stopped, testsRun, ran, cbVars, logs_copy, flushFile, calls, viewVars>>
    /\ IF ~RUNNING_WITH_APPIUM
       THEN /\ pc' = "start_selenium"
            /\ UNCHANGED <<appium_driver, startAttempts, launched, started,
                           raised, setupError, report>>
       ELSE IF PLATFORM \in {"Android", "iOS"}
       THEN /\ startAttempts' = [startAttempts EXCEPT !["appium"] = @ + 1]
            /\ UNCHANGED report
            /\ \/ /\ appium_driver' = cls
                  /\ launched' = launched \cup {"appium"}
                  /\ started' = started \cup {"appium"}
                  /\ pc' = "start_selenium"
                  /\ UNCHANGED <<raised, setupError>>
               \/ /\ Raise("appium")
                  /\ UNCHANGED <<appium_driver, launched, started>>
       ELSE /\ report' = Reporter_log(report, "AppiumUnsupported")
            /\ pc' = "start_selenium"
            /\ UNCHANGED <<appium_driver, startAttempts, launched, started,
                           raised, setupError>>

\* start_selenium_driver without its check of the platform
start_selenium_driver_any_platform ==
    /\ pc = "start_selenium"
    /\ UNCHANGED <<cfgVars, cls, appium_driver, drivers, unity_logs,
                   Reporter_alt_driver, failure, listener, stopAttempted,
                   stopped, testsRun, ran, cbVars, logs_copy, flushFile, calls,
                   viewVars, report>>
    /\ IF ~RUNNING_WITH_SELENIUM
       THEN /\ pc' = "start_alt"
            /\ UNCHANGED <<selenium_driver, startAttempts, launched, started,
                           raised, setupError>>
       ELSE /\ startAttempts' = [startAttempts EXCEPT !["selenium"] = @ + 1]
            /\ \/ /\ selenium_driver' = cls
                  /\ launched' = launched \cup {"selenium"}
                  /\ started' = started \cup {"selenium"}
                  /\ pc' = "start_alt"
                  /\ UNCHANGED <<raised, setupError>>
               \/ /\ Raise("selenium")
                  /\ UNCHANGED <<selenium_driver, launched, started>>

\* start_all_drivers, second part: the Selenium driver
start_selenium_driver ==
    /\ pc = "start_selenium"
    /\ UNCHANGED <<cfgVars, cls, appium_driver, drivers, unity_logs,
                   Reporter_alt_driver, failure, listener, stopAttempted,
                   stopped, testsRun, ran, cbVars, logs_copy, flushFile, calls, viewVars>>
    /\ IF ~RUNNING_WITH_SELENIUM
       THEN /\ pc' = "start_alt"
            /\ UNCHANGED <<selenium_driver, startAttempts, launched, started,
                           raised, setupError, report>>
       ELSE IF PLATFORM = "WebGL"
       THEN /\ startAttempts' = [startAttempts EXCEPT !["selenium"] = @ + 1]
            /\ UNCHANGED report
            /\ \/ /\ selenium_driver' = cls          \* Chrome() and get() return
                  /\ launched' = launched \cup {"selenium"}
                  /\ started' = started \cup {"selenium"}
                  /\ pc' = "start_alt"
                  /\ UNCHANGED <<raised, setupError>>
               \/ /\ Raise("selenium")               \* webdriver.Chrome raises
                  /\ UNCHANGED <<selenium_driver, launched, started>>
               \/ /\ Raise("selenium")               \* driver.get raises
                  /\ launched' = launched \cup {"selenium"}
                  /\ UNCHANGED <<selenium_driver, started>>
       ELSE /\ report' = Reporter_log(report, "SeleniumNotNeeded")
            /\ pc' = "start_alt"
            /\ UNCHANGED <<selenium_driver, startAttempts, launched, started,
                           raised, setupError>>

\* start_all_drivers building the container without connecting AltDriver
start_alttester_driver_skipped ==
    /\ pc = "start_alt"
    /\ drivers' = <<DriverContainer(None, appium_driver, selenium_driver)>>
    /\ report' = Reporter_log(report, "AllStarted")
    /\ pc' = "listener"
    /\ UNCHANGED <<cfgVars, cls, appium_driver, selenium_driver, unity_logs,
                   Reporter_alt_driver, raised, setupError, failure, listener,
                   startAttempts, launched, started, stopAttempted, stopped,
                   testsRun, ran, cbVars, logs_copy, flushFile, calls, viewVars>>

\* start_all_drivers, last part: start_alttester_driver and the container
start_alttester_driver ==
    /\ pc = "start_alt"
    /\ startAttempts' = [startAttempts EXCEPT !["alt"] = @ + 1]
    /\ UNCHANGED <<cfgVars, cls, appium_driver, selenium_driver, unity_logs,
                   failure, listener, stopAttempted, stopped, testsRun, ran,
                   cbVars, logs_copy, flushFile, calls, viewVars>>
    /\ \/ /\ Reporter_alt_driver' = cls
          /\ launched' = launched \cup {"alt"}
          /\ started' = started \cup {"alt"}
          /\ drivers' = <<DriverContainer(cls, appium_driver, selenium_driver)>>
          /\ report' = Reporter_log(Reporter_log(report, "Connected"), "AllStarted")
          /\ pc' = "listener"
          /\ UNCHANGED <<raised, setupError>>
       \/ /\ Raise("alt")
          /\ UNCHANGED <<Reporter_alt_driver, launched, started, drivers, report>>

\* setup_unity_log_listener, then request.cls.drivers = drivers and the yield
setup_unity_log_listener ==
    /\ pc = "listener"
    /\ UNCHANGED <<cfgVars, cls, drvVars, unity_logs, Reporter_alt_driver,
                   failure, testsRun, ran, cbVars, logs_copy, flushFile, calls, viewVars>>
    /\ IF drivers[1].alt_driver = None
       THEN /\ pc' = "tests"
            /\ UNCHANGED <<listener, report, raised, setupError>>
       ELSE /\ report' = Reporter_log(report, "ListenerSetup")
            /\ \/ /\ listener' = TRUE
                  /\ pc' = "tests"
                  /\ UNCHANGED <<raised, setupError>>
               \/ /\ Raise("listener")   \* os.makedirs or add_notification_listener
                  /\ UNCHANGED listener

\* setup_drivers with its cleanup after the yield instead of in a finally
setup_except_without_finally ==
    /\ pc = "except"
    /\ failure' = raised
    /\ raised' = "none"
    /\ pc' = "done"
    /\ UNCHANGED <<cfgVars, cls, drvVars, unity_logs, Reporter_alt_driver,
                   setupError, listener, testsRun, ran, cbVars, logs_copy,
                   flushFile, report, calls, viewVars>>

\* setup_drivers with an except clause that logs and carries on to the yield
setup_except_swallowed ==
    /\ pc = "except"
    /\ raised' = "none"
    /\ pc' = "tests"
    /\ UNCHANGED <<cfgVars, cls, drvVars, unity_logs, Reporter_alt_driver,
                   setupError, failure, listener, testsRun, ran, cbVars,
                   logs_copy, flushFile, report, calls, viewVars>>

\* the except clause of setup_drivers: pytest.fail(f"... {ex}")
setup_except ==
    /\ pc = "except"
    /\ failure' = raised
    /\ raised' = "none"
    /\ pc' = "flush"
    /\ UNCHANGED <<cfgVars, cls, drvVars, unity_logs, Reporter_alt_driver,
                   setupError, listener, testsRun, ran, cbVars, logs_copy,
                   flushFile, report, calls, viewVars>>

\* ------------------------------------------------------------------ tests
\* one test function of the class, with auto_screenshot_on_failure after it
run_test ==
    /\ pc = "tests"
    /\ testsRun < MaxTests
    /\ testsRun' = testsRun + 1
    /\ \E body \in BOOLEAN, failed \in BOOLEAN, outcome \in {"ok", "driver_raises"} :
          LET r == IF body   \* the body calls Reporter.log(..., with_screenshot=True)
                   THEN Reporter_log_with(report, Reporter_alt_driver,
                                          "ClientMessage", TRUE, outcome)
                   ELSE report
          IN report' = IF failed         \* request.node.rep_call.failed
                       THEN Reporter_take_screenshot(r, Reporter_alt_driver,
                                FailedName(testsRun + 1), outcome)
                       ELSE r
    /\ UNCHANGED <<cfgVars, cls, pc, drvVars, unity_logs, Reporter_alt_driver,
                   raised, setupError, failure, listener, ran, cbVars,
                   logs_copy, flushFile, calls, viewVars>>

\* the last test of the class is over: the generator is resumed
finish_tests ==
    /\ pc = "tests"
    /\ pc' = "flush"
    /\ UNCHANGED <<cfgVars, cls, drvVars, unity_logs, Reporter_alt_driver,
                   raised, setupError, failure, listener, testsRun, ran,
                   cbVars, logs_copy, flushFile, report, calls, viewVars>>

\* ------------------------------------------- delivery thread: log_callback
\* filename = f"{test_name}-UnityLogs-{timestamp}.txt": one per class and run
Filename(c) == [test_name |-> c, ext |-> ".txt"]

\* the two lines log_callback writes for notification n
Lines(n) == << <<"message", n>>, <<"StackTrace", n>> >>

\* the client is connected and pushes to the registered callback
Delivering == listener /\ "alt" \in started \ stopped

\* the client hands the next notification to log_callback
log_callback_begin ==
    /\ Delivering
    /\ cbPc = "idle"
    /\ delivered < MaxNotifs
    /\ delivered' = delivered + 1
    /\ cbPc' = "write"
    /\ UNCHANGED <<cfgVars, cls, pc, drvVars, unity_logs, Reporter_alt_driver,
                   raised, setupError, failure, listener, testsRun, ran, file,
                   logs_copy, flushFile, report, calls, viewVars>>

\* with open(filepath, "a") as f: f.write(message); f.write(stack trace)
log_callback_write ==
    /\ cbPc = "write"
    /\ \/ /\ file' = file \o Lines(delivered)
          /\ cbPc' = "insert"
          /\ UNCHANGED report
       \/ /\ report' = Reporter_log(report, "ErrorSavingLog")  \* open or write raises
          /\ cbPc' = "idle"
          /\ UNCHANGED file
    /\ UNCHANGED <<cfgVars, cls, pc, drvVars, unity_logs, Reporter_alt_driver,
                   raised, setupError, failure, listener, testsRun, ran,
                   delivered, logs_copy, flushFile, calls, viewVars>>

\* if filename not in unity_logs: unity_logs[filename] = filepath
log_callback_insert ==
    /\ cbPc = "insert"
    /\ unity_logs' = unity_logs \cup {Filename(cls)}
    /\ cbPc' = "idle"
    /\ UNCHANGED <<cfgVars, cls, pc, drvVars, Reporter_alt_driver, raised,
                   setupError, failure, listener, testsRun, ran, delivered,
                   file, logs_copy, flushFile, report, calls, viewVars>>

\* ------------------------------------------------- Reporter, attachments
\* content_type_map.get(file_extension, allure.attachment_type.TEXT)
ContentType(ext) ==
    CASE ext \in {".txt", ".log"} -> "TEXT"
      [] ext = ".json" -> "JSON"
      [] ext = ".xml" -> "XML"
      [] ext = ".html" -> "HTML"
      [] ext = ".csv" -> "CSV"
      [] OTHER -> "TEXT"

AttachOutcomes == {"ok", "attach_raises"}

\* Reporter.attach_file_to_allure without its os.path.exists check: open()
\* raises on a missing file and the except clause logs the failure
Reporter_attach_file_to_allure_unchecked(rep, f, exists, content, outcome) ==
    IF ~exists \/ outcome = "attach_raises"
    THEN Reporter_log(rep, "FailedAttach")
    ELSE Reporter_log([rep EXCEPT !.att = @ \cup
                          {[name |-> f, type |-> ContentType(f.ext),
                            content |-> content]}],
                      "FileAttached")

\* Reporter.attach_file_to_allure(file_path, custom_name): exists and content
\* are what os.path.exists and file.read() give for file_path at the call.
\* The report sink's step(), entered outside the try, is taken not to raise,
\* as in Reporter.log.
Reporter_attach_file_to_allure(rep, f, exists, content, outcome) ==
    IF ~exists
    THEN Reporter_log(rep, "FileNotFound")
    ELSE IF outcome = "attach_raises"
    THEN Reporter_log(rep, "FailedAttach")
    ELSE Reporter_log([rep EXCEPT !.att = @ \cup
                          {[name |-> f, type |-> ContentType(f.ext),
                            content |-> content]}],
                      "FileAttached")

\* ------------------------------------------------- the finally block
\* add_unity_logs_to_allure: logs_copy = dict(unity_logs)
add_unity_logs_copy ==
    /\ pc = "flush"
    /\ logs_copy' = unity_logs
    /\ ran' = [ran EXCEPT !["flush"] = @ + 1]
    /\ pc' = IF unity_logs = {} THEN "cleanup" ELSE "flush_attach"
    /\ UNCHANGED <<cfgVars, cls, drvVars, unity_logs, Reporter_alt_driver,
                   raised, setupError, failure, listener, testsRun, cbVars,
                   flushFile, report, calls, viewVars>>

\* add_unity_logs_to_allure: the attachment of one file of the copy
add_unity_logs_attach ==
    /\ pc = "flush_attach"
    /\ \E f \in logs_copy :
          /\ flushFile' = f
          /\ \E outcome \in AttachOutcomes :
                LET r == Reporter_attach_file_to_allure(
                             report, f, file # <<>>, file, outcome)
                IN report' = IF r.exc = "none" THEN r     \* except Exception:
                             ELSE Reporter_log([r EXCEPT !.exc = "none"],
                                               "NoUnityLogs")
    /\ pc' = "flush_pop"
    /\ UNCHANGED <<cfgVars, cls, drvVars, unity_logs, Reporter_alt_driver,
                   raised, setupError, failure, listener, testsRun, ran,
                   cbVars, logs_copy, calls, viewVars>>

\* add_unity_logs_to_allure: unity_logs.pop(filename, None)
add_unity_logs_pop ==
    /\ pc = "flush_pop"
    /\ unity_logs' = unity_logs \ {flushFile}
    /\ logs_copy' = logs_copy \ {flushFile}
    /\ pc' = IF logs_copy' = {} THEN "cleanup" ELSE "flush_attach"
    /\ UNCHANGED <<cfgVars, cls, drvVars, Reporter_alt_driver, raised,
                   setupError, failure, listener, testsRun, ran, cbVars,
                   flushFile, report, calls, viewVars>>

StopOrder == <<"alt", "selenium", "appium">>

\* the try body of stop_all_drivers from its i-th statement on; fails are
\* the kinds whose stop()/quit() raises
RECURSIVE StopFrom(_, _, _)
StopFrom(c, fails, i) ==
    IF i > Len(StopOrder)
    THEN [attempted |-> {}, stopped |-> {}, error |-> FALSE]
    ELSE LET k == StopOrder[i]
         IN IF Handle(c, k) = None
            THEN StopFrom(c, fails, i + 1)
            ELSE IF k \in fails
            THEN [attempted |-> {k}, stopped |-> {}, error |-> TRUE]
            ELSE LET r == StopFrom(c, fails, i + 1)
                 IN [attempted |-> {k} \cup r.attempted,
                     stopped |-> {k} \cup r.stopped,
                     error |-> r.error]

\* stop_all_drivers(drivers)
stop_all_drivers(c, fails) ==
    LET r == StopFrom(c, fails, 1)
    IN /\ stopAttempted' = stopAttempted \cup r.attempted
       /\ stopped' = stopped \cup r.stopped
       /\ report' = Reporter_log(report, IF r.error THEN "ErrorStopping"
                                                    ELSE "AllStoppedOk")

\* if drivers: stop_all_drivers(drivers)
teardown_cleanup ==
    /\ pc = "cleanup"
    /\ ran' = [ran EXCEPT !["cleanup"] = @ + 1]
    /\ IF drivers # <<>>
       THEN \E fails \in SUBSET Kinds : stop_all_drivers(drivers[1], fails)
       ELSE UNCHANGED <<stopAttempted, stopped, report>>
    /\ pc' = "completion"
    /\ UNCHANGED <<cfgVars, cls, appium_driver, selenium_driver, drivers,
                   startAttempts, launched, started, unity_logs,
                   Reporter_alt_driver, raised, setupError, failure, listener,
                   testsRun, cbVars, logs_copy, flushFile, calls, viewVars>>

\* the completion log called with with_screenshot=True
teardown_completion_with_screenshot ==
    /\ pc = "completion"
    /\ ran' = [ran EXCEPT !["completion"] = @ + 1]
    /\ report' = Reporter_log_with(report, Reporter_alt_driver, "Completed",
                                   TRUE, "ok")
    /\ pc' = "done"
    /\ UNCHANGED <<cfgVars, cls, drvVars, unity_logs, Reporter_alt_driver,
                   raised, setupError, failure, listener, testsRun, cbVars,
                   logs_copy, flushFile, calls, viewVars>>

\* Reporter.log("All drivers stopped and cleanup completed.")
teardown_completion ==
    /\ pc = "completion"
    /\ ran' = [ran EXCEPT !["completion"] = @ + 1]
    /\ report' = Reporter_log(report, "Completed")
    /\ pc' = "done"
    /\ UNCHANGED <<cfgVars, cls, drvVars, unity_logs, Reporter_alt_driver,
                   raised, setupError, failure, listener, testsRun, cbVars,
                   logs_copy, flushFile, calls, viewVars>>

\* pytest goes on to the next test class: a new run of the fixture
next_class ==
    /\ pc = "done"
    /\ cls < MaxClasses
    /\ cls' = cls + 1
    /\ pc' = "start_appium"
    /\ appium_driver' = None
    /\ selenium_driver' = None
    /\ drivers' = <<>>
    /\ unity_logs' = {}
    /\ raised' = "none"
    /\ setupError' = "none"
    /\ failure' = "none"
    /\ listener' = FALSE
    /\ startAttempts' = [k \in Kinds |-> 0]
    /\ launched' = {}
    /\ started' = {}
    /\ stopAttempted' = {}
    /\ stopped' = {}
    /\ testsRun' = 0
    /\ ran' = [s \in {"flush", "cleanup", "completion"} |-> 0]
    /\ cbPc' = "idle"
    /\ delivered' = 0
    /\ file' = <<>>
    /\ logs_copy' = {}
    /\ flushFile' = NoFile
    /\ report' = EmptyReport
    /\ UNCHANGED <<cfgVars, Reporter_alt_driver, calls, viewVars>>

Next ==
    \/ start_appium_driver
    \/ start_selenium_driver
    \/ start_alttester_driver
    \/ setup_unity_log_listener
    \/ setup_except
    \/ run_test
    \/ finish_tests
    \/ log_callback_begin
    \/ log_callback_write
    \/ log_callback_insert
    \/ add_unity_logs_copy
    \/ add_unity_logs_attach
    \/ add_unity_logs_pop
    \/ teardown_cleanup
    \/ teardown_completion
    \/ next_class

Spec == Init /\ [][Next]_vars

\* --------------------------------------- the Reporter called by a client
\* Reporter is a static utility: any code of the process may call it,
\* before or after a primary driver is registered.
ClientNames == {NoName, EmptyName, FailedName(1)}
ClientFiles == {[test_name |-> 1, ext |-> e] : e \in {".txt", ".json", ".png"}}

clientFrame ==
    UNCHANGED <<cfgVars, cls, pc, drvVars, unity_logs, raised, setupError,
                failure, listener, testsRun, ran, cbVars, logs_copy, flushFile,
                viewVars>>

\* Reporter.alt_driver = driver
client_set_driver ==
    /\ calls < MaxCalls
    /\ calls' = calls + 1
    /\ Reporter_alt_driver' = 1
    /\ UNCHANGED report
    /\ clientFrame

client_take_screenshot ==
    /\ calls < MaxCalls
    /\ calls' = calls + 1
    /\ \E name \in ClientNames, outcome \in ShotOutcomes :
          report' = Reporter_take_screenshot([report EXCEPT !.exc = "none"],
                                             Reporter_alt_driver, name, outcome)
    /\ UNCHANGED Reporter_alt_driver
    /\ clientFrame

client_log ==
    /\ calls < MaxCalls
    /\ calls' = calls + 1
    /\ \E ws \in BOOLEAN, outcome \in ShotOutcomes :
          report' = Reporter_log_with([report EXCEPT !.exc = "none"],
                                      Reporter_alt_driver, "ClientMessage",
                                      ws, outcome)
    /\ UNCHANGED Reporter_alt_driver
    /\ clientFrame

\* a call of attach_file_to_allure on a path that exists, or does not
client_attach(exists) ==
    /\ calls < MaxCalls
    /\ calls' = calls + 1
    /\ \E f \in ClientFiles, outcome \in AttachOutcomes :
          report' = Reporter_attach_file_to_allure(
                        [report EXCEPT !.exc = "none"], f, exists,
                        Lines(1), outcome)
    /\ UNCHANGED Reporter_alt_driver
    /\ clientFrame

client_attach_file ==
    \E exists \in BOOLEAN : client_attach(exists)

NextReporter ==
    \/ client_set_driver
    \/ client_take_screenshot
    \/ client_log
    \/ client_attach_file

SpecReporter == Init /\ [][NextReporter]_vars

\* ----------------------------------------------------------- page objects
\* A call of a page-object method is computed on a call record: the report
\* so far, the exception leaving the call (NoExc: none), the calls made on
\* the driver, the element and the Reporter, in order, and the value returned.
VerbTimeout == 10        \* click_object, tap_object, set_text, get_text
WaitTimeout == 20        \* wait_for_object
MenuReadyTimeout == 10   \* wait_for_main_menu_ready
TestTimeout == 2         \* the timeout test_can_start_new_game passes

Call(rep) == [rep |-> rep, exc |-> NoExc, events |-> <<>>, ret |-> "None"]

AssertionError(value, timeout) ==
    [type |-> "AssertionError", value |-> value, timeout |-> timeout]

\* BaseView.wait_for_object with a screenshot that is not fail-soft: what the
\* capture raises leaves the call in place of the AssertionError
wait_for_object_unsafe_screenshot(cs, drv, sc, loc, timeout, outcome) ==
    LET r1 == Reporter_log(cs.rep, "Waiting")
        ev == Append(cs.events, <<"alt_driver.wait_for_object", loc>>)
    IN IF sc[loc] # "absent"
       THEN [cs EXCEPT !.rep = r1, !.events = ev, !.ret = loc]
       ELSE [cs EXCEPT
               !.rep = Reporter_log_with(r1, drv, "NotFoundWithin", TRUE, outcome),
               !.events = ev \o << <<"Reporter.take_screenshot", "">>,
                                   <<"raise", IF outcome = "ok"
                                              THEN "AssertionError"
                                              ELSE "Exception">> >>,
               !.exc = IF outcome = "ok" THEN AssertionError(loc, timeout)
                       ELSE [type |-> "Exception", value |-> outcome,
                             timeout |-> 0],
               !.ret = "None"]

\* BaseView.wait_for_object(locator, timeout): drv is Reporter.alt_driver,
\* sc the game's scene, outcome what fails in the screenshot, if anything
wait_for_object(cs, drv, sc, loc, timeout, outcome) ==
    LET r1 == Reporter_log(cs.rep, "Waiting")
        ev == Append(cs.events, <<"alt_driver.wait_for_object", loc>>)
    IN IF sc[loc] # "absent"
       THEN [cs EXCEPT !.rep = r1, !.events = ev, !.ret = loc]
       ELSE [cs EXCEPT
               !.rep = Reporter_log_with(r1, drv, "NotFoundWithin", TRUE, outcome),
               !.events = ev \o << <<"Reporter.take_screenshot", "">>,
                                   <<"raise", "AssertionError">> >>,
               !.exc = AssertionError(loc, timeout),
               !.ret = "None"]

\* the part of a verb after its wait_for_object: the element's method
ActOn(r, action) ==
    IF r.exc # NoExc THEN r
    ELSE [r EXCEPT !.events = Append(@, <<action, r.ret>>), !.ret = "None"]

\* BaseView.click_object(locator, timeout)
click_object(cs, drv, sc, loc, timeout, outcome) ==
    ActOn(wait_for_object(cs, drv, sc, loc, timeout, outcome), "click")

\* BaseView.tap_object(locator, count, timeout)
tap_object(cs, drv, sc, loc, timeout, outcome) ==
    ActOn(wait_for_object(cs, drv, sc, loc, timeout, outcome), "tap")

\* BaseView.set_text(locator, text, timeout)
set_text(cs, drv, sc, loc, timeout, outcome) ==
    ActOn(wait_for_object(cs, drv, sc, loc, timeout, outcome), "set_text")

\* BaseView.get_text(locator, timeout)
get_text(cs, drv, sc, loc, timeout, outcome) ==
    LET r == ActOn(wait_for_object(cs, drv, sc, loc, timeout, outcome), "get_text")
    IN IF r.exc # NoExc THEN r ELSE [r EXCEPT !.ret = "text"]

\* BaseView.is_object_present(locator)
is_object_present(cs, sc, loc) ==
    [cs EXCEPT !.events = Append(@, <<"alt_driver.find_object", loc>>),
               !.ret = IF sc[loc] # "absent" THEN "True" ELSE "False"]

\* BaseView.find_element(locator)
find_element(cs, drv, sc, loc, outcome) ==
    LET ev == Append(cs.events, <<"alt_driver.find_object", loc>>)
    IN IF sc[loc] # "absent"
       THEN [cs EXCEPT !.events = ev, !.ret = loc]
       ELSE [cs EXCEPT
               !.rep = Reporter_log_with(cs.rep, drv, "NotFound", TRUE, outcome),
               !.events = ev \o << <<"Reporter.take_screenshot", "">>,
                                   <<"raise", "AssertionError">> >>,
               !.exc = AssertionError(loc, 0),
               !.ret = "None"]

\* the attributes an instance of MainMenuView has: those of BaseView, those
\* of MainMenuView and the ones its __init__ sets
ViewAttributes ==
    {"drivers", "alt_driver", "appium_driver", "selenium_driver",
     "click_object", "tap_object", "wait_for_object",
     "wait_for_object_which_contains", "wait_for_object_not_be_present",
     "set_text", "get_text", "is_object_present", "find_element",
     "get_current_scene", "load_scene", "take_screenshot", "wait",
     "play_button_locator", "main_menu_panel_locator",
     "player_name_input_locator", "settings_button_locator",
     "click_play_button", "is_main_menu_visible", "enter_player_name",
     "navigate_to_settings", "wait_for_main_menu_ready", "start_new_game"}

\* self.find_object(locator) in MainMenuView: Python looks the attribute up
\* on the instance and its classes and raises AttributeError when none has it
self_find_object(cs, sc, loc) ==
    IF "find_object" \in ViewAttributes
    THEN IF sc[loc] # "absent"
         THEN [cs EXCEPT !.events = Append(@, <<"find_object", loc>>), !.ret = loc]
         ELSE [cs EXCEPT !.events = Append(@, <<"find_object", loc>>),
                         !.exc = [type |-> "NotFoundException", value |-> loc,
                                  timeout |-> 0],
                         !.ret = "None"]
    ELSE [cs EXCEPT !.events = Append(@, <<"raise", "AttributeError">>),
                    !.exc = [type |-> "AttributeError", value |-> "find_object",
                             timeout |-> 0],
                    !.ret = "None"]

\* MainMenuView.click_play_button()
click_play_button(cs, sc) ==
    LET r == self_find_object(cs, sc, "PlayButton")
    IN IF r.exc # NoExc THEN r
       ELSE [r EXCEPT !.events = Append(@, <<"click", r.ret>>),
                      !.rep = Reporter_log(@, "ClickedPlay"),
                      !.ret = "None"]

\* MainMenuView.is_main_menu_visible()
is_main_menu_visible(cs, sc) ==
    LET r == self_find_object(cs, sc, "MainMenuPanel")
    IN IF r.exc # NoExc                          \* except Exception:
       THEN [r EXCEPT !.exc = NoExc,
                      !.rep = Reporter_log(@, "PanelNotFound"),
                      !.ret = "False"]
       ELSE [r EXCEPT !.rep = Reporter_log(@, "PanelVisible"),
                      !.ret = IF sc["MainMenuPanel"] = "enabled"
                              THEN "True" ELSE "False"]

\* MainMenuView.enter_player_name(player_name)
enter_player_name(cs, sc) ==
    LET r == self_find_object(cs, sc, "PlayerNameInput")
    IN IF r.exc # NoExc THEN r
       ELSE [r EXCEPT !.events = Append(@, <<"set_text", r.ret>>),
                      !.rep = Reporter_log(@, "EnteredName"),
                      !.ret = "None"]

\* MainMenuView.wait_for_main_menu_ready(timeout_seconds)
wait_for_main_menu_ready(cs, drv, sc, timeout, outcome) ==
    LET r == wait_for_object(cs, drv, sc, "MainMenuPanel", timeout, outcome)
    IN IF r.exc # NoExc THEN r
       ELSE [r EXCEPT !.rep = Reporter_log(@, "MenuReady"), !.ret = "None"]

\* MainMenuView.start_new_game(player_name)
start_new_game(cs, drv, sc, outcome) ==
    LET r1 == wait_for_main_menu_ready(cs, drv, sc, MenuReadyTimeout, outcome)
        r2 == is_main_menu_visible(r1, sc)
        r3 == enter_player_name(r2, sc)
        r4 == click_play_button(r3, sc)
    IN IF r1.exc # NoExc THEN r1
       ELSE IF r2.ret # "True"
       THEN [r2 EXCEPT !.events = Append(@, <<"raise", "Exception">>),
                       !.exc = [type |-> "Exception",
                                value |-> "Main menu is not visible",
                                timeout |-> 0],
                       !.ret = "None"]
       ELSE IF r3.exc # NoExc THEN r3
       ELSE IF r4.exc # NoExc THEN r4
       ELSE [r4 EXCEPT !.rep = Reporter_log(@, "StartedNewGame")]

\* ------------------------------------- page objects called by a test body
viewFrame ==
    UNCHANGED <<cfgVars, cls, pc, drvVars, unity_logs, Reporter_alt_driver,
                raised, setupError, failure, listener, testsRun, ran, cbVars,
                logs_copy, flushFile, scene>>

\* the call returns or raises: r is its call record
Returned(verb, loc, timeout, outcome, r) ==
    /\ calls < MaxViewCalls
    /\ calls' = calls + 1
    /\ report' = r.rep
    /\ view' = [verb |-> verb, loc |-> loc, timeout |-> timeout,
                drv |-> Reporter_alt_driver, outcome |-> outcome, sc |-> scene,
                exc |-> r.exc, events |-> r.events, ret |-> r.ret]
    /\ viewFrame

view_wait_for_object ==
    \E loc \in Elements, t \in {WaitTimeout, TestTimeout}, o \in ShotOutcomes :
        Returned("wait_for_object", loc, t, o,
                 wait_for_object(Call(report), Reporter_alt_driver, scene, loc, t, o))

view_click_object ==
    \E loc \in Elements, t \in {VerbTimeout, TestTimeout}, o \in ShotOutcomes :
        Returned("click_object", loc, t, o,
                 click_object(Call(report), Reporter_alt_driver, scene, loc, t, o))

view_tap_object ==
    \E loc \in Elements, t \in {VerbTimeout, TestTimeout}, o \in ShotOutcomes :
        Returned("tap_object", loc, t, o,
                 tap_object(Call(report), Reporter_alt_driver, scene, loc, t, o))

view_set_text ==
    \E loc \in Elements, t \in {VerbTimeout, TestTimeout}, o \in ShotOutcomes :
        Returned("set_text", loc, t, o,
                 set_text(Call(report), Reporter_alt_driver, scene, loc, t, o))

view_get_text ==
    \E loc \in Elements, t \in {VerbTimeout, TestTimeout}, o \in ShotOutcomes :
        Returned("get_text", loc, t, o,
                 get_text(Call(report), Reporter_alt_driver, scene, loc, t, o))

view_is_object_present ==
    \E loc \in Elements :
        Returned("is_object_present", loc, 0, "ok",
                 is_object_present(Call(report), scene, loc))

view_find_element ==
    \E loc \in Elements, o \in ShotOutcomes :
        Returned("find_element", loc, 0, o,
                 find_element(Call(report), Reporter_alt_driver, scene, loc, o))

view_click_play_button ==
    Returned("click_play_button", "PlayButton", 0, "ok",
             click_play_button(Call(report), scene))

view_is_main_menu_visible ==
    Returned("is_main_menu_visible", "MainMenuPanel", 0, "ok",
             is_main_menu_visible(Call(report), scene))

view_enter_player_name ==
    Returned("enter_player_name", "PlayerNameInput", 0, "ok",
             enter_player_name(Call(report), scene))

view_wait_for_main_menu_ready ==
    \E t \in {MenuReadyTimeout, TestTimeout}, o \in ShotOutcomes :
        Returned("wait_for_main_menu_ready", "MainMenuPanel", t, o,
                 wait_for_main_menu_ready(Call(report), Reporter_alt_driver,
                                          scene, t, o))

view_start_new_game ==
    \E o \in ShotOutcomes :
        Returned("start_new_game", "MainMenuPanel", MenuReadyTimeout, o,
                 start_new_game(Call(report), Reporter_alt_driver, scene, o))

\* A test body, or any other client, calls page objects built on a connected
\* DriverContainer: the game shows any scene, the configuration is the one
\* TestConfiguration reads from an empty environment, and the primary driver
\* is registered with the Reporter (start_alttester_driver) or is not.
InitViews ==
    /\ PLATFORM = "Android"
    /\ RUNNING_WITH_APPIUM = FALSE
    /\ RUNNING_WITH_SELENIUM = FALSE
    /\ cls = 1
    /\ Reporter_alt_driver \in {None, 1}
    /\ calls = 0
    /\ scene \in [Elements -> ElementStates]
    /\ view = NoCall
    /\ ClassStart

NextViews ==
    \/ view_wait_for_object
    \/ view_click_object
    \/ view_tap_object
    \/ view_set_text
    \/ view_get_text
    \/ view_is_object_present
    \/ view_find_element
    \/ view_click_play_button
    \/ view_is_main_menu_visible
    \/ view_enter_player_name
    \/ view_wait_for_main_menu_ready
    \/ view_start_new_game

SpecViews == InitViews /\ [][NextViews]_vars

\* ====================================================== the claims
InStarts == pc \in {"start_appium", "start_selenium", "start_alt"}
AfterFlush == pc \in {"cleanup", "completion", "done"}
AfterCleanup == pc \in {"completion", "done"}

\* C1: once stop_all_drivers has returned, the stop/quit of every non-null
\* driver of the container has been attempted, whichever of the stop/quit
\* calls raised.
C1_StopsAreIndependent ==
    (AfterCleanup /\ drivers # <<>>) =>
        \A k \in Kinds : Handle(drivers[1], k) # None => k \in stopAttempted

\* C2: when the class fixture finishes, the stop/quit of every driver whose
\* start succeeded has been attempted, also when a later step of setup raised.
\* Stated for the runs in which no stop/quit call raised.
C2_StartedDriversAreStopped ==
    (pc = "done" /\ report.steps["ErrorStopping"] = 0) =>
        started \subseteq stopAttempted

\* the lines of notifications 1..n, in arrival order
RECURSIVE Arrived(_)
Arrived(n) == IF n = 0 THEN <<>> ELSE Arrived(n - 1) \o Lines(n)

\* C3: when the class fixture finishes, the log file content attached by the
\* flush holds the lines of every notification delivered to the callback, in
\* arrival order.  Stated for the runs in which no file write, no attachment
\* and no driver stop failed and the callback has returned.
C3_DeliveredLogsAreFlushed ==
    (/\ pc = "done"
     /\ cbPc = "idle"
     /\ delivered > 0
     /\ report.steps["ErrorSavingLog"] = 0
     /\ report.steps["FailedAttach"] = 0
     /\ report.steps["NoUnityLogs"] = 0
     /\ report.steps["ErrorStopping"] = 0) =>
        \E a \in report.att :
            a.name = Filename(cls) /\ a.content = Arrived(delivered)

\* C4: from the end of the flush to the end of the class fixture the buffer
\* unity_logs is empty.
C4_BufferStaysEmptyAfterFlush ==
    AfterFlush => unity_logs = {}

\* C5: the flush starts only after the stop of every started driver has been
\* attempted, and no driver stop is attempted once the flush has started.
C5_FlushFollowsDriverStops ==
    /\ [](ran["flush"] > 0 => started \subseteq stopAttempted)
    /\ [][ran["flush"] > 0 => stopAttempted' = stopAttempted]_vars

\* C6: an execution of log_callback never overlaps the flush of the main
\* thread (between its copy of the buffer and its last pop).
C6_CallbackAndFlushAreSerialized ==
    ~(cbPc # "idle" /\ pc \in {"flush_attach", "flush_pop"})

C9_SetupFailureFailsTheClass ==
    /\ \A k \in Kinds : startAttempts[k] <= 1
    /\ (setupError # "none" /\ pc # "except") =>
           /\ failure = setupError
           /\ testsRun = 0
           /\ raised = "none"

C9_Witness ==
    /\ pc = "done"
    /\ setupError = "listener"
    /\ failure = "listener"
    /\ "alt" \in started

\* C10: a call of Reporter.take_screenshot while Reporter.alt_driver is None
\* raises nothing, records the one log message "Cannot take screenshot", and
\* calls no driver, writes no file and attaches nothing, whatever the name
\* ("<test>_Failed" included).
C10_ScreenshotWithoutDriverIsSoft ==
    [][(client_take_screenshot /\ Reporter_alt_driver = None) =>
          /\ report'.exc = "none"
          /\ report'.steps = [report.steps EXCEPT !["CannotScreenshot"] = @ + 1]
          /\ report'.shots = report.shots
          /\ report'.png = report.png
          /\ report'.pngAtt = report.pngAtt
          /\ report'.att = report.att]_vars

C10_Witness ==
    /\ calls = 1
    /\ Reporter_alt_driver = None
    /\ report.steps["CannotScreenshot"] = 1
    /\ report.steps["ClientMessage"] = 0

\* the events of a call record show op applied to arg
Did(ev, op, arg) == \E i \in DOMAIN ev : ev[i] = <<op, arg>>

\* ... and a call of Reporter.take_screenshot before the raise
ScreenshotBeforeRaise(ev) ==
    \E i, j \in DOMAIN ev :
        i < j /\ ev[i][1] = "Reporter.take_screenshot" /\ ev[j][1] = "raise"

\* C11: click_play_button called while PlayButton is absent raises an
\* AssertionError naming PlayButton and the timeout, after a screenshot
\* attempt, and clicks nothing.
C11_ClickPlayButtonReportsAbsentButton ==
    (view.verb = "click_play_button" /\ view.sc["PlayButton"] = "absent") =>
        /\ view.exc.type = "AssertionError"
        /\ view.exc.value = "PlayButton"
        /\ view.exc.timeout > 0
        /\ ScreenshotBeforeRaise(view.events)
        /\ \A e \in Elements : ~Did(view.events, "click", e)

\* C12: start_new_game called while the panel, the name input and the play
\* button are present and enabled returns without raising, having set the
\* text of the name input and then clicked the play button.
C12_StartNewGameSucceedsOnReadyMenu ==
    (view.verb = "start_new_game" /\ \A e \in Elements : view.sc[e] = "enabled") =>
        /\ view.exc = NoExc
        /\ \E i, j \in DOMAIN view.events :
              /\ i < j
              /\ view.events[i] = <<"set_text", "PlayerNameInput">>
              /\ view.events[j] = <<"click", "PlayButton">>

\* C13: once class setup has succeeded the container holds this class's
\* primary driver; it holds a mobile driver only if RUNNING_WITH_APPIUM and
\* the platform is Android or iOS, a browser driver only if
\* RUNNING_WITH_SELENIUM and the platform is WebGL; and no kind of driver
\* was created twice.
C13_ContainerMatchesConfiguration ==
    (drivers # <<>> /\ setupError = "none" /\ pc # "listener") =>
        LET c == drivers[1]
        IN /\ c.alt_driver = cls
           /\ c.appium_driver \in {None, cls}
           /\ c.selenium_driver \in {None, cls}
           /\ c.appium_driver # None =>
                 RUNNING_WITH_APPIUM /\ PLATFORM \in {"Android", "iOS"}
           /\ c.selenium_driver # None =>
                 RUNNING_WITH_SELENIUM /\ PLATFORM = "WebGL"
           /\ \A k \in Kinds : startAttempts[k] <= 1
           /\ \A k \in Kinds : Handle(c, k) # None <=> k \in started

C13_Witness ==
    /\ pc = "tests"
    /\ PLATFORM = "Android"
    /\ RUNNING_WITH_APPIUM
    /\ RUNNING_WITH_SELENIUM
    /\ drivers[1].alt_driver = cls
    /\ drivers[1].appium_driver = cls
    /\ drivers[1].selenium_driver = None

\* C14: a call of Reporter.attach_file_to_allure on a path that does not
\* exist raises nothing, records the one log message "File not found" and
\* attaches nothing.
C14_AttachMissingFileIsSoft ==
    [][client_attach(FALSE) =>
          /\ report'.exc = "none"
          /\ report'.steps = [report.steps EXCEPT !["FileNotFound"] = @ + 1]
          /\ report'.att = report.att
          /\ report'.pngAtt = report.pngAtt
          /\ report'.png = report.png
          /\ report'.shots = report.shots]_vars

C14_Witness ==
    /\ calls = 1
    /\ report.steps["FileNotFound"] = 1
    /\ report.att = {}

WaitVerbs == {"wait_for_object", "click_object", "tap_object", "set_text",
              "get_text"}

\* C15: a call of wait_for_object, click_object, tap_object, set_text or
\* get_text whose driver wait fails calls Reporter.take_screenshot and then
\* raises an AssertionError naming the locator value and the timeout passed;
\* nothing is done to the element, and this is so whatever fails inside the
\* screenshot.  With a driver registered and the directory available, the
\* capture is requested from that driver.
C15_FailedWaitRaisesAfterScreenshot ==
    (view.verb \in WaitVerbs /\ view.sc[view.loc] = "absent") =>
        /\ view.exc = AssertionError(view.loc, view.timeout)
        /\ view.events = << <<"alt_driver.wait_for_object", view.loc>>,
                            <<"Reporter.take_screenshot", "">>,
                            <<"raise", "AssertionError">> >>
        /\ (view.drv # None /\ view.outcome # "makedirs_raises") =>
               \E sh \in report.shots : sh.driver = view.drv

C15_Witness ==
    /\ view.verb = "set_text"
    /\ view.sc[view.loc] = "absent"
    /\ view.outcome = "driver_raises"
    /\ view.drv # None
    /\ view.exc.type = "AssertionError"
    /\ view.exc.timeout = VerbTimeout

\* C16: every screenshot capture is made by the primary driver that the
\* current class's setup started and registered, before any stop of it is
\* attempted.
C16_ScreenshotsUseTheLiveDriver ==
    [][\A sh \in report'.shots \ report.shots :
          /\ sh.driver = cls
          /\ Reporter_alt_driver = cls
          /\ "alt" \in started
          /\ "alt" \notin stopAttempted]_vars

C16_Witness ==
    /\ cls = 2
    /\ Reporter_alt_driver = 2
    /\ \E sh \in report.shots : sh.driver = 2 /\ sh.name = FailedName(1)

====
